---- MODULE Spec2Model ----
(***************************************************************************)
(* F-Excel conversion pipeline: ExcelTranslatorModule (synchronous and     *)
(* background-thread conversion, cancel, Tk callback queue) and            *)
(* BatchDataProcessor with its two parser strategies.                      *)
(*                                                                         *)
(* Text is a sequence of one-character strings.  "\n", "\t" and " " are    *)
(* the whitespace characters, "1" and "2" the digits, "a" and "b" stand    *)
(* for any other non-blank character, and "#" stands for the example       *)
(* marker the code tests with startswith.                                  *)
(***************************************************************************)
EXTENDS Integers, Sequences, FiniteSets, TLC

\* ------------------------------------------------------------------ bounds
\* Largest number of lines of an input text.
MaxLines == 4
\* Largest number of background conversions started in one behaviour.
MaxRuns == 2
\* Chunk size of convert_async (1000 in the source), scaled down.
AsyncBatchSize == 2
\* Line count above which convert_and_preview goes asynchronous (10000 in
\* the source), scaled down.
AsyncThreshold == 2
\* Chunk size of the BatchDataProcessor instance (default 1000), scaled down.
BdpBatchSize == 2
\* Largest length of the texts the parsers are given character by character.
MaxChars == 4
\* Largest number of lines of the texts the parsers are given line by line.
MaxParseLines == 2
\* Row cap of load_large_excel_file (100000 in the source), scaled down.
RowCap == 2
\* Largest number of rows of an Excel table.
MaxRows == 3
\* Rows per batch of the large-file reader (5000 in the source).
LoadBatchSize == 1
\* Record count above which export_text (first definition) takes the
\* batched path (10000 in the source), scaled down.
ExportThreshold == 2
\* Batch size of export_large_file (10000 in the source), scaled down.
ExportBatchSize == 2
\* Largest number of records exported.
MaxRecords == 5

\* ------------------------------------------------------- string primitives
NL == "\n"
TAB == "\t"
SP == " "
CR == "\r"
Sentinel == <<"#">>
Digits == {"1", "2"}
Whitespace == {SP, TAB, NL, CR}

Min(a, b) == IF a <= b THEN a ELSE b

\* str.isdigit(): non-empty and every character a digit
IsDigit(s) == Len(s) > 0 /\ \A k \in 1..Len(s) : s[k] \in Digits

\* `sub in s` for a one-character sub
Contains(s, c) == \E k \in 1..Len(s) : s[k] = c

\* str.startswith(prefix)
StartsWith(s, p) == Len(s) >= Len(p) /\ SubSeq(s, 1, Len(p)) = p

RECURSIVE LStrip(_)
LStrip(s) == IF s # <<>> /\ Head(s) \in Whitespace THEN LStrip(Tail(s)) ELSE s

RECURSIVE RStrip(_)
RStrip(s) ==
    IF s # <<>> /\ s[Len(s)] \in Whitespace
    THEN RStrip(SubSeq(s, 1, Len(s) - 1))
    ELSE s

\* str.strip()
Strip(s) == RStrip(LStrip(s))

\* str.split(sep) for a one-character sep: always at least one field
RECURSIVE SplitFrom(_, _, _)
SplitFrom(s, sep, cur) ==
    IF s = <<>> THEN <<cur>>
    ELSE IF Head(s) = sep THEN <<cur>> \o SplitFrom(Tail(s), sep, <<>>)
    ELSE SplitFrom(Tail(s), sep, Append(cur, Head(s)))

Split(s, sep) == SplitFrom(s, sep, <<>>)

RECURSIVE Join(_, _)
Join(ls, sep) ==
    IF ls = <<>> THEN <<>>
    ELSE IF Len(ls) = 1 THEN ls[1]
    ELSE ls[1] \o <<sep>> \o Join(Tail(ls), sep)

RECURSIVE SelectLines(_)
\* the comprehension [line.strip() for line in raw if line.strip() and not
\* line.startswith(marker)]: the marker test reads the unstripped line
SelectLines(raw) ==
    IF raw = <<>> THEN <<>>
    ELSE LET line == Head(raw)
             rest == SelectLines(Tail(raw))
         IN IF Strip(line) # <<>> /\ ~StartsWith(line, Sentinel)
            THEN <<Strip(line)>> \o rest
            ELSE rest

\* lines = [... for line in data.strip().split('\n') ...]
FilterLines(data) == SelectLines(Split(Strip(data), NL))

\* ------------------------------------------------------- triple conversion
\* a conversion that takes any first field as the ID
ConvertLineAnyId(line) ==
    IF Contains(line, TAB)
    THEN LET parts == Split(line, TAB)
         IN IF Len(parts) >= 3
            THEN LET id_value == Strip(parts[1])
                     chinese == Strip(parts[2])
                     korean == Strip(parts[3])
                 IN <<[ID |-> id_value, Chinese |-> chinese,
                       Korean |-> korean,
                       Output |-> id_value \o <<"=">> \o korean]>>
            ELSE <<>>
    ELSE <<>>

\* one line of convert_batch / convert_excel_data: <<record>> or <<>>
ConvertLine(line) ==
    IF Contains(line, TAB)
    THEN LET parts == Split(line, TAB)
         IN IF Len(parts) >= 3
            THEN LET id_value == Strip(parts[1])
                     chinese == Strip(parts[2])
                     korean == Strip(parts[3])
                 IN IF IsDigit(id_value)
                    THEN <<[ID |-> id_value, Chinese |-> chinese,
                            Korean |-> korean,
                            Output |-> id_value \o <<"=">> \o korean]>>
                    ELSE <<>>
            ELSE <<>>
    ELSE <<>>

RECURSIVE convert_batch(_)
convert_batch(lines) ==
    IF lines = <<>> THEN <<>>
    ELSE ConvertLine(Head(lines)) \o convert_batch(Tail(lines))

RECURSIVE ConvertExcelLines(_)
ConvertExcelLines(raw) ==
    IF raw = <<>> THEN <<>>
    ELSE LET line == Strip(Head(raw))
             rest == ConvertExcelLines(Tail(raw))
         IN IF line = <<>> \/ StartsWith(line, Sentinel) \/ StartsWith(line, <<"=">>)
            THEN rest
            ELSE ConvertLine(line) \o rest

convert_excel_data(text) == ConvertExcelLines(Split(Strip(text), NL))

\* the percent taken at the start of the chunk instead of its end
ProgressAtChunkStart(i, size, total) ==
    IF i * 100 >= 100 * total
    THEN [num |-> 100, den |-> 1]
    ELSE [num |-> i * 100, den |-> total]

\* the percent without the cap at 100
ProgressUncapped(i, size, total) == [num |-> (i + size) * 100, den |-> total]

\* progress = min(100, (i + batch_size) / total_lines * 100), kept exact as
\* the fraction num/den
Progress(i, size, total) ==
    IF (i + size) * 100 >= 100 * total
    THEN [num |-> 100, den |-> 1]
    ELSE [num |-> (i + size) * 100, den |-> total]

Pct(n) == [num |-> n, den |-> 1]
PctLeq(p, q) == p.num * q.den <= q.num * p.den
PctLess(p, q) == p.num * q.den < q.num * p.den

\* lines[i:i + size]
Slice(lines, i, size) == SubSeq(lines, i + 1, Min(i + size, Len(lines)))

\* ------------------------------------------------------------------- state
VARIABLES
    input_text,      \* content of the input text widget
    converted_data,  \* ExcelTranslatorModule.converted_data
    processing,      \* ExcelTranslatorModule.processing
    ui,              \* progress_var, status_label, cancel_button, status_bar
    messagebox,      \* the dialog shown last, "none" before the first
    threads,         \* the convert_async threads, by start order
    after_queue,     \* callbacks scheduled with window.after(0, ...), FIFO
    runs,            \* history of each run: cancel, outcome, events delivered
    last_op,         \* the operation taken last, for the handlers a claim names
    bdp,             \* one BatchDataProcessor and its process_batch call
    call,            \* the parser or reader call made last: argument, result
    excel_file,      \* the table pandas reads from the selected Excel file
    frame,           \* the local variables of the reader or export handler
                     \* that is between two of its steps
    handler          \* the main thread's stack of handlers that are between
                     \* two of their steps, innermost last; empty in mainloop

vars == <<input_text, converted_data, processing, ui, messagebox, threads,
          after_queue, runs, last_op, bdp, call, excel_file, frame, handler>>

RunIds == 1..MaxRuns

\* no file selected
NoFile == [ncols |-> 0, rows |-> <<>>]

\* before any parser or reader call
NoCall == [fn |-> "none", arg |-> <<>>, result |-> <<>>]

\* no reader or export handler is between two of its steps
NoFrame == [fn |-> "none"]

\* ------------------------------------------------------------------ inputs
GoodLine == <<"1", TAB, "a", TAB, "b">>
JunkLine == <<"a">>

\* n lines, all well-formed except line `junk` (0 for none)
TextOf(n, junk) ==
    Join([k \in 1..n |-> IF k = junk THEN JunkLine ELSE GoodLine], NL)

\* the example the input widget shows at first: a marker line and data
\* lines, few enough for the synchronous path
ExampleText == Join(<<Sentinel \o <<"a">>, GoodLine>>, NL)

\* what the user can put in the input widget: texts above the asynchronous
\* threshold (a last chunk shorter than the chunk size, and a whole number
\* of chunks), one short text, one without data, one blank
Inputs ==
    { TextOf(AsyncThreshold + 1, 2), TextOf(MaxLines, 0), TextOf(1, 0),
      JunkLine, <<SP>>, ExampleText }

\* ------------------------------------------------------------- thread view
Started(r) == threads[r].pc # "unstarted"

\* started and not yet out of its chunk loop
InLoop(r) == threads[r].pc \in {"start", "check", "batch", "post"}

\* the thread object exists and has not returned
Alive(r) == threads[r].pc \notin {"unstarted", "done"}

NumStarted == Cardinality({ r \in RunIds : Started(r) })

Pending(r, kind) ==
    \E k \in 1..Len(after_queue) :
        after_queue[k].run = r /\ after_queue[k].kind = kind

\* a run is over once its completion or error callback has run, it was
\* cancelled, or its thread returned without scheduling either callback
RunActive(r) ==
    /\ Started(r)
    /\ runs[r].outcome = "none"
    /\ ~runs[r].cancelled
    /\ \/ Alive(r)
       \/ Pending(r, "completed")
       \/ Pending(r, "failed")

NoThread ==
    [pc |-> "unstarted", input_data |-> <<>>, lines |-> <<>>, i |-> 0,
     exit |-> "none"]

NoRun ==
    [cancelled |-> FALSE, seen_at_cancel |-> 0, after_cancel |-> 0,
     outcome |-> "none", delivered |-> 0, last_i |-> -1, last_pct |-> Pct(0),
     excepthook |-> FALSE]

\* a callback queue that runs the newest callback first
ScheduleNewestFirst(queue, event) == <<event>> \o queue

\* window.after(0, callback): Tk runs same-time timers in creation order
Schedule(queue, event) == Append(queue, event)

Event(kind, r, pct, from, to) ==
    [kind |-> kind, run |-> r, progress |-> pct, from |-> from, to |-> to]

\* the BatchDataProcessor as constructed: BatchDataProcessor(processor, size)
NewBdp(kind) ==
    [processor |-> kind, processing |-> FALSE, cancelled |-> FALSE,
     pc |-> "idle", cancel_pc |-> "idle", data |-> <<>>, lines |-> <<>>,
     i |-> 0,
     processed_data |-> <<>>, outcome |-> "none", result |-> <<>>,
     progress |-> <<>>]

ProcessorKinds == {"id_value", "excel_translation"}

InitTranslator ==
    /\ handler = <<>>
    /\ frame = NoFrame
    /\ converted_data = <<>>
    /\ processing = FALSE
    /\ ui = [progress_var |-> Pct(0), status_label |-> <<"ready">>,
             cancel_button |-> "disabled", status_bar |-> <<"ready">>]
    /\ messagebox = "none"
    /\ threads = [r \in RunIds |-> NoThread]
    /\ after_queue = <<>>
    /\ runs = [r \in RunIds |-> NoRun]
    /\ last_op = "init"
    /\ call = NoCall

\* the translator with a text above the asynchronous threshold entered
Init ==
    /\ input_text = TextOf(AsyncThreshold + 1, 2)
    /\ bdp = NewBdp("excel_translation")
    /\ excel_file = NoFile
    /\ InitTranslator

InitRun ==
    /\ input_text \in Inputs
    /\ bdp = NewBdp("excel_translation")
    /\ excel_file = NoFile
    /\ InitTranslator

\* ------------------------------------------------- main-thread handlers
\* start_async_conversion: flag, widgets, and a new daemon thread
start_async_conversion(input_data) ==
    LET r == NumStarted + 1 IN
    /\ NumStarted < MaxRuns
    /\ processing' = TRUE
    /\ ui' = [ui EXCEPT !.progress_var = Pct(0),
                        !.status_label = <<"starting">>,
                        !.cancel_button = "normal"]
    /\ threads' = [threads EXCEPT ![r] = [NoThread EXCEPT !.pc = "start",
                                              !.input_data = input_data]]
    /\ UNCHANGED <<converted_data, messagebox, after_queue, runs, bdp, call,
                   excel_file, frame, handler>>

\* no handler is running on the main thread: mainloop waits for the user
MainIdle == handler = <<>>

\* the innermost handler is at position pos
At(pos) == handler # <<>> /\ handler[Len(handler)] = pos

\* the stack once the innermost handler has returned
Returned == SubSeq(handler, 1, Len(handler) - 1)

\* the positions at which a handler waits in a modal dialog it shows before
\* it goes on: the truncation warning and the error dialog of the readers,
\* the file dialog and the success and error dialogs of the exports
DialogWaits ==
    {"load_warning", "load_failed", "export_ask", "export_saved",
     "export_failed"}

\* the main thread runs the callbacks that are due: in mainloop, and in the
\* wait of a modal dialog a handler shows before it goes on
InEventLoop ==
    \/ MainIdle
    \/ \E pos \in DialogWaits : At(pos)

\* convert_sync, lines 158-162: the widgets show the conversion, the text
\* is converted on the calling thread and assigned to self.converted_data.
\* The handler then reads self.converted_data again, three times, with
\* widget calls in between during which a conversion thread can run
convert_sync(input_data) ==
    /\ converted_data' = convert_excel_data(input_data)
    /\ ui' = [ui EXCEPT !.status_label = <<"converting">>,
                        !.progress_var = Pct(50)]
    /\ handler' = Append(handler, "sync_test")
    /\ UNCHANGED <<processing, messagebox, threads, after_queue, runs, bdp,
                   call, excel_file, frame>>

\* line 164: `if not self.converted_data`, the notice and the return
SyncTest ==
    /\ At("sync_test")
    /\ IF converted_data = <<>>
       THEN messagebox' = "no_data" /\ handler' = Returned
       ELSE UNCHANGED messagebox /\ handler' = Append(Returned, "sync_label")
    /\ last_op' = "convert_sync"
    /\ UNCHANGED <<input_text, converted_data, processing, ui, threads,
                   after_queue, runs, bdp, call, excel_file, frame>>

\* lines 167-172: the preview, the progress bar and the status label
SyncLabel ==
    /\ At("sync_label")
    /\ ui' = [ui EXCEPT !.progress_var = Pct(100),
                        !.status_label = <<"done", Len(converted_data)>>]
    /\ handler' = Append(Returned, "sync_bar")
    /\ last_op' = "convert_sync"
    /\ UNCHANGED <<input_text, converted_data, processing, messagebox,
                   threads, after_queue, runs, bdp, call, excel_file,
                   frame>>

\* line 173: the status bar
SyncBar ==
    /\ At("sync_bar")
    /\ ui' = [ui EXCEPT !.status_bar = <<"done", Len(converted_data)>>]
    /\ handler' = Returned
    /\ last_op' = "convert_sync"
    /\ UNCHANGED <<input_text, converted_data, processing, messagebox,
                   threads, after_queue, runs, bdp, call, excel_file,
                   frame>>

\* convert_sync after its first assignment, to its return
convert_sync_rest == SyncTest \/ SyncLabel \/ SyncBar

\* the busy test of convert_and_preview
Busy == processing

\* a convert_and_preview that goes asynchronous from the threshold on
convert_and_preview_from_threshold ==
    /\ MainIdle
    /\ last_op' = "convert_and_preview"
    /\ UNCHANGED input_text
    /\ IF Busy
       THEN /\ messagebox' = "busy"
            /\ UNCHANGED <<converted_data, processing, ui, threads,
                           after_queue, runs, bdp, call, excel_file,
                           frame, handler>>
       ELSE IF Strip(input_text) = <<>>
       THEN /\ messagebox' = "no_input"
            /\ UNCHANGED <<converted_data, processing, ui, threads,
                           after_queue, runs, bdp, call, excel_file,
                           frame, handler>>
       ELSE IF Len(FilterLines(input_text)) >= AsyncThreshold
       THEN start_async_conversion(input_text)
       ELSE convert_sync(input_text)

convert_and_preview ==
    /\ MainIdle
    /\ last_op' = "convert_and_preview"
    /\ UNCHANGED input_text
    /\ IF Busy
       THEN /\ messagebox' = "busy"
            /\ UNCHANGED <<converted_data, processing, ui, threads,
                           after_queue, runs, bdp, call, excel_file,
                           frame, handler>>
       ELSE IF Strip(input_text) = <<>>
       THEN /\ messagebox' = "no_input"
            /\ UNCHANGED <<converted_data, processing, ui, threads,
                           after_queue, runs, bdp, call, excel_file,
                           frame, handler>>
       ELSE IF Len(FilterLines(input_text)) > AsyncThreshold
       THEN start_async_conversion(input_text)
       ELSE convert_sync(input_text)

\* the widgets as create_interface builds them
NewWidgets ==
    [progress_var |-> Pct(0), status_label |-> <<"ready">>,
     cancel_button |-> "disabled", status_bar |-> <<"ready">>]

\* show: an open window is raised; after the window was closed a new one is
\* built with new widgets, the input widget holding the example text, while
\* processing, converted_data and the conversion threads stay as they are
show ==
    /\ MainIdle
    /\ \E window_exists \in BOOLEAN :
           IF window_exists
           THEN UNCHANGED <<input_text, ui>>
           ELSE input_text' = ExampleText /\ ui' = NewWidgets
    /\ last_op' = "show"
    /\ UNCHANGED <<converted_data, processing, messagebox, threads,
                   after_queue, runs, bdp, call, excel_file, frame,
                   handler>>

\* clear_file: the input widget gets the example text back
clear_file ==
    /\ MainIdle
    /\ input_text' = ExampleText
    /\ last_op' = "clear_file"
    /\ UNCHANGED <<converted_data, processing, ui, messagebox, threads,
                   after_queue, runs, bdp, call, excel_file, frame,
                   handler>>

\* the runs a cancel request reaches: those not yet over
CancelledBy(r) == processing /\ RunActive(r)

\* cancel_processing: acts only while the processing flag is set
cancel_processing ==
    /\ MainIdle
    /\ last_op' = IF last_op \in {"cancel_processing", "cancel_processing_again"}
                  THEN "cancel_processing_again"
                  ELSE "cancel_processing"
    /\ IF processing
       THEN /\ processing' = FALSE
            /\ ui' = [ui EXCEPT !.progress_var = Pct(0),
                                !.status_label = <<"cancelled">>,
                                !.cancel_button = "disabled",
                                !.status_bar = <<"cancelled">>]
       ELSE UNCHANGED <<processing, ui>>
    /\ runs' = [r \in RunIds |->
                  IF CancelledBy(r)
                  THEN [runs[r] EXCEPT !.cancelled = TRUE,
                                       !.seen_at_cancel = runs[r].delivered]
                  ELSE runs[r]]
    /\ UNCHANGED <<input_text, converted_data, messagebox, threads,
                   after_queue, bdp, call, excel_file, frame,
                   handler>>

\* ---------------------------------------------- callbacks run by mainloop
update_progress ==
    /\ InEventLoop
    /\ after_queue # <<>>
    /\ Head(after_queue).kind = "progress"
    /\ LET e == Head(after_queue) IN
       /\ ui' = [ui EXCEPT !.progress_var = e.progress,
                           !.status_label = <<"rows", e.from, e.to>>]
       /\ runs' = [runs EXCEPT ![e.run].delivered = @ + 1,
                               ![e.run].last_i = e.from - 1,
                               ![e.run].last_pct = e.progress]
    /\ after_queue' = Tail(after_queue)
    /\ last_op' = "update_progress"
    /\ UNCHANGED <<input_text, converted_data, processing, messagebox, threads, bdp, call, excel_file, frame,
                   handler>>

\* conversion_completed, lines 253-260: the flag, the progress bar, the
\* status label with the record count read now, the cancel button, the
\* preview. The count is read again for the status bar and the dialog, with
\* widget calls in between during which a conversion thread can run
conversion_completed ==
    /\ InEventLoop
    /\ after_queue # <<>>
    /\ Head(after_queue).kind = "completed"
    /\ processing' = FALSE
    /\ ui' = [ui EXCEPT !.progress_var = Pct(100),
                        !.status_label = <<"done", Len(converted_data)>>,
                        !.cancel_button = "disabled"]
    /\ handler' = Append(handler, "completed_bar")
    /\ runs' = [runs EXCEPT ![Head(after_queue).run].outcome = "completed"]
    /\ after_queue' = Tail(after_queue)
    /\ last_op' = "conversion_completed"
    /\ UNCHANGED <<input_text, converted_data, messagebox, threads, bdp, call,
                   excel_file, frame>>

\* conversion_completed, lines 263-266: the status bar and the dialog
conversion_completed_rest ==
    /\ At("completed_bar")
    /\ ui' = [ui EXCEPT !.status_bar = <<"done", Len(converted_data)>>]
    /\ messagebox' = "completed"
    /\ handler' = Returned
    /\ last_op' = "conversion_completed"
    /\ UNCHANGED <<input_text, converted_data, processing, threads,
                   after_queue, runs, bdp, call, excel_file, frame>>

\* the flag conversion_failed leaves
FailedFlag == FALSE

conversion_failed ==
    /\ InEventLoop
    /\ after_queue # <<>>
    /\ Head(after_queue).kind = "failed"
    /\ processing' = FailedFlag
    /\ ui' = [ui EXCEPT !.progress_var = Pct(0),
                        !.status_label = <<"failed">>,
                        !.cancel_button = "disabled"]
    /\ messagebox' = "error"
    /\ runs' = [runs EXCEPT ![Head(after_queue).run].outcome = "failed"]
    /\ after_queue' = Tail(after_queue)
    /\ last_op' = "conversion_failed"
    /\ UNCHANGED <<input_text, converted_data, threads, bdp, call, excel_file, frame,
                   handler>>

\* ------------------------------------------------ convert_async, by step
\* the locals of the handler on the main thread once self.converted_data is
\* bound to a new list: a write loop that is going over the old list keeps
\* it, as it is now
Rebound(f) ==
    IF "live" \in DOMAIN f /\ f.live
    THEN [f EXCEPT !.live = FALSE, !.rows = converted_data]
    ELSE f

\* lines 198-203: the thread filters its lines and binds self.converted_data
\* to a new, empty list
AsyncInit(r) ==
    /\ threads[r].pc = "start"
    /\ threads' = [threads EXCEPT ![r].pc = "check",
                                  ![r].lines = FilterLines(threads[r].input_data),
                                  ![r].i = 0]
    /\ converted_data' = <<>>
    /\ frame' = Rebound(frame)
    /\ last_op' = "convert_async"
    /\ UNCHANGED <<input_text, processing, ui, messagebox, after_queue, runs,
                   bdp, call, excel_file, handler>>

\* what the loop head of convert_async reads to decide whether to go on
KeepGoing == processing

\* lines 205-207: next range element, then the cancel test
AsyncCheck(r) ==
    /\ threads[r].pc = "check"
    /\ threads' = [threads EXCEPT
                     ![r].pc = IF threads[r].i >= Len(threads[r].lines) THEN "final"
                               ELSE IF ~KeepGoing THEN "final"
                               ELSE "batch",
                     ![r].exit = IF threads[r].i >= Len(threads[r].lines)
                                 THEN "exhausted"
                                 ELSE IF ~KeepGoing THEN "break"
                                 ELSE "none"]
    /\ last_op' = "convert_async"
    /\ UNCHANGED <<input_text, converted_data, processing, ui, messagebox,
                   after_queue, runs, bdp, call, excel_file, frame,
                   handler>>

\* lines 209-211: convert the chunk and extend the accumulator
AsyncBatch(r) ==
    /\ threads[r].pc = "batch"
    /\ converted_data' = converted_data \o
           convert_batch(Slice(threads[r].lines, threads[r].i, AsyncBatchSize))
    /\ threads' = [threads EXCEPT ![r].pc = "post"]
    /\ runs' = [runs EXCEPT ![r].after_cancel =
                                IF runs[r].cancelled THEN @ + 1 ELSE @]
    /\ last_op' = "convert_async"
    /\ UNCHANGED <<input_text, processing, ui, messagebox, after_queue, bdp, call, excel_file, frame,
                   handler>>

\* a loop index that starts the next chunk on the last line of this one
NextIndexOverlap(i) == i + AsyncBatchSize - 1

\* the loop index after one chunk
NextIndex(i) == i + AsyncBatchSize

\* lines 214-218: schedule the progress callback, pause, next chunk
AsyncPost(r) ==
    LET t == threads[r]
        total_lines == Len(t.lines)
    IN
    /\ t.pc = "post"
    /\ after_queue' = Schedule(after_queue,
           Event("progress", r, Progress(t.i, AsyncBatchSize, total_lines),
                 t.i + 1, Min(t.i + AsyncBatchSize, total_lines)))
    /\ threads' = [threads EXCEPT ![r].pc = "check", ![r].i = NextIndex(t.i)]
    /\ last_op' = "convert_async"
    /\ UNCHANGED <<input_text, converted_data, processing, ui, messagebox,
                   runs, bdp, call, excel_file, frame,
                   handler>>

\* where control goes when the try block raises
OnException == "except"

\* the positions of the thread inside the try block, lines 197-221
TryBlock == {"start", "check", "batch", "post", "final", "complete"}

\* an exception raised in the try block, by the statement the thread is at
AsyncRaise(r) ==
    /\ threads[r].pc \in TryBlock
    /\ threads' = [threads EXCEPT ![r].pc = OnException, ![r].exit = "raise"]
    /\ last_op' = "convert_async"
    /\ UNCHANGED <<input_text, converted_data, processing, ui, messagebox,
                   after_queue, runs, bdp, call, excel_file, frame,
                   handler>>

\* line 220: complete only when not cancelled
AsyncFinal(r) ==
    /\ threads[r].pc = "final"
    /\ threads' = [threads EXCEPT ![r].pc = IF processing THEN "complete"
                                            ELSE "done"]
    /\ last_op' = "convert_async"
    /\ UNCHANGED <<input_text, converted_data, processing, ui, messagebox,
                   after_queue, runs, bdp, call, excel_file, frame,
                   handler>>

\* line 221: schedule conversion_completed
AsyncComplete(r) ==
    /\ threads[r].pc = "complete"
    /\ after_queue' = Schedule(after_queue, Event("completed", r, Pct(0), 0, 0))
    /\ threads' = [threads EXCEPT ![r].pc = "done"]
    /\ last_op' = "convert_async"
    /\ UNCHANGED <<input_text, converted_data, processing, ui, messagebox,
                   runs, bdp, call, excel_file, frame,
                   handler>>

\* lines 223-224: the handler schedules conversion_failed with window.after,
\* the call of lines 215 and 221. When the main thread is not in the event
\* loop window.after raises here as well: nothing is scheduled, the
\* exception leaves the thread and threading.excepthook gets it
AsyncExcept(r) ==
    /\ threads[r].pc = "except"
    /\ \E after_raises \in BOOLEAN :
           IF after_raises
           THEN /\ runs' = [runs EXCEPT ![r].excepthook = TRUE]
                /\ UNCHANGED after_queue
           ELSE /\ after_queue' = Schedule(after_queue,
                                           Event("failed", r, Pct(0), 0, 0))
                /\ UNCHANGED runs
    /\ threads' = [threads EXCEPT ![r].pc = "done"]
    /\ last_op' = "convert_async"
    /\ UNCHANGED <<input_text, converted_data, processing, ui, messagebox,
                   bdp, call, excel_file, frame, handler>>

\* the steps of convert_async when nothing raises
convert_async(r) ==
    \/ AsyncInit(r)
    \/ AsyncCheck(r)
    \/ AsyncBatch(r)
    \/ AsyncPost(r)
    \/ AsyncFinal(r)
    \/ AsyncComplete(r)

\* an exception in the try block of convert_async and its handler
convert_async_except(r) ==
    \/ AsyncRaise(r)
    \/ AsyncExcept(r)

\* the translator's handlers and threads, no exception raised
NextTranslator ==
    \/ show
    \/ clear_file
    \/ convert_and_preview
    \/ convert_sync_rest
    \/ cancel_processing
    \/ update_progress
    \/ conversion_completed
    \/ conversion_completed_rest
    \/ \E r \in RunIds : convert_async(r)

\* ------------------------------------------------------ parser validation
\* re.search(r'(\d+)=([^\s\n]+)', data): a digit, '=', a non-blank character
IdValueSearch(data) ==
    \E k \in 1..(Len(data) - 2) :
        /\ data[k] \in Digits
        /\ data[k + 1] = "="
        /\ data[k + 2] \notin Whitespace

\* IDValueProcessor.validate
IdValueValidate(data) ==
    IF data = <<>> \/ Strip(data) = <<>> THEN FALSE ELSE IdValueSearch(data)

\* ExcelTranslationProcessor.validate
ExcelValidate(data) ==
    IF data = <<>> \/ Strip(data) = <<>> THEN FALSE
    ELSE LET lines == FilterLines(data)
         IN IF lines = <<>> THEN FALSE
            ELSE \E k \in 1..Len(lines) : Contains(lines[k], TAB)

\* self.processor.validate(data)
Validate(kind, data) ==
    IF kind = "id_value" THEN IdValueValidate(data) ELSE ExcelValidate(data)

\* ------------------------------------------------------------ the parsers
\* first index at or after p that holds no digit
RECURSIVE DigitsEnd(_, _)
DigitsEnd(s, p) ==
    IF p <= Len(s) /\ s[p] \in Digits THEN DigitsEnd(s, p + 1) ELSE p

\* a value run that a line break does not end
RECURSIVE ValueEndAcrossLines(_, _)
ValueEndAcrossLines(s, p) ==
    IF p <= Len(s) /\ s[p] \notin {SP, TAB}
    THEN ValueEndAcrossLines(s, p + 1)
    ELSE p

\* first index at or after p that holds whitespace
RECURSIVE ValueEnd(_, _)
ValueEnd(s, p) ==
    IF p <= Len(s) /\ s[p] \notin Whitespace THEN ValueEnd(s, p + 1) ELSE p

\* a scan that stops at its first match, as re.search does
RECURSIVE FindFirstFrom(_, _)
FindFirstFrom(s, p) ==
    IF p > Len(s) THEN <<>>
    ELSE LET q == DigitsEnd(s, p)
         IN IF q > p /\ q + 1 <= Len(s) /\ s[q] = "=" /\ s[q + 1] \notin Whitespace
            THEN <<[code |-> SubSeq(s, p, q - 1),
                    value |-> SubSeq(s, q + 1, ValueEnd(s, q + 1) - 1)]>>
            ELSE FindFirstFrom(s, p + 1)

\* re.findall(r'(\d+)=([^\s\n]+)', s) from index p: leftmost match, both
\* groups greedy, the scan resumes where the match ended
RECURSIVE FindAllFrom(_, _)
FindAllFrom(s, p) ==
    IF p > Len(s) THEN <<>>
    ELSE LET q == DigitsEnd(s, p)
         IN IF q > p /\ q + 1 <= Len(s) /\ s[q] = "=" /\ s[q + 1] \notin Whitespace
            THEN LET e == ValueEnd(s, q + 1)
                 IN <<[code |-> SubSeq(s, p, q - 1),
                       value |-> SubSeq(s, q + 1, e - 1)]>> \o FindAllFrom(s, e)
            ELSE FindAllFrom(s, p + 1)

findall(text) == FindAllFrom(text, 1)

\* IDConverterModule.convert_id_values
convert_id_values(text) ==
    LET matches == findall(text)
    IN [k \in 1..Len(matches) |->
          [ID |-> matches[k].code, Value |-> Strip(matches[k].value)]]

\* IDValueProcessor.process
IDValueProcess(data) ==
    IF ~IdValueValidate(data) THEN <<>>
    ELSE LET matches == findall(data)
         IN [k \in 1..Len(matches) |->
               [ID |-> matches[k].code, Value |-> Strip(matches[k].value),
                Type |-> "ID_VALUE"]]

\* ExcelTranslationProcessor.process
ExcelProcess(data) ==
    IF ~ExcelValidate(data) THEN <<>>
    ELSE LET found == convert_batch(FilterLines(data))
         IN [k \in 1..Len(found) |->
               [ID |-> found[k].ID, Chinese |-> found[k].Chinese,
                Korean |-> found[k].Korean, Output |-> found[k].Output,
                Type |-> "EXCEL_TRANSLATION"]]

\* self.processor.process(data) of the configured parser
Process(kind, data) ==
    IF kind = "id_value" THEN IDValueProcess(data) ELSE ExcelProcess(data)

\* --------------------------------------------------- BatchDataProcessor
\* process_batch_lines reads self.separator and self.required_columns, which
\* BatchDataProcessor never sets: the first line of a batch raises
\* AttributeError, an empty batch returns the empty list
process_batch_lines(lines) ==
    IF lines = <<>> THEN [raised |-> FALSE, data |-> <<>>]
    ELSE [raised |-> TRUE, data |-> <<>>]

\* what process_batch returns for input the parser rejects (line 244)
RejectedResult == <<>>

\* a process_batch that resets its flags before it validates
BdpProcessBatchFlagsFirst ==
    /\ bdp.pc = "idle"
    /\ LET data == input_text
           lines == FilterLines(data)
       IN bdp' =
            IF ~Validate(bdp.processor, data)
            THEN [bdp EXCEPT !.data = data, !.outcome = "returned",
                             !.processing = TRUE, !.cancelled = FALSE,
                             !.result = RejectedResult]
            ELSE IF Len(lines) = 0
            THEN [bdp EXCEPT !.data = data, !.outcome = "returned",
                             !.result = <<>>]
            ELSE [bdp EXCEPT !.data = data, !.lines = lines, !.i = 0,
                             !.processing = TRUE, !.outcome = "none",
                             !.result = <<>>, !.pc = "flags"]
    /\ last_op' = "process_batch"
    /\ UNCHANGED <<input_text, converted_data, processing, ui, messagebox,
                   threads, after_queue, runs, call, excel_file, frame,
                   handler>>

\* lines 243-253: validate, filter, then self.processing = True
BdpProcessBatch ==
    /\ bdp.pc = "idle"
    /\ LET data == input_text
           lines == FilterLines(data)
       IN bdp' =
            IF ~Validate(bdp.processor, data)
            THEN [bdp EXCEPT !.data = data, !.outcome = "returned",
                             !.result = RejectedResult]
            ELSE IF Len(lines) = 0
            THEN [bdp EXCEPT !.data = data, !.outcome = "returned",
                             !.result = <<>>]
            ELSE [bdp EXCEPT !.data = data, !.lines = lines, !.i = 0,
                             !.processing = TRUE, !.outcome = "none",
                             !.result = <<>>, !.pc = "flags"]
    /\ last_op' = "process_batch"
    /\ UNCHANGED <<input_text, converted_data, processing, ui, messagebox,
                   threads, after_queue, runs, call, excel_file, frame,
                   handler>>

\* lines 254-255: self.cancelled = False and the empty result list, a step
\* of their own because cancel_processing of another thread may have run
\* since line 253
BdpFlags ==
    /\ bdp.pc = "flags"
    /\ bdp' = [bdp EXCEPT !.cancelled = FALSE, !.processed_data = <<>>,
                          !.pc = "check"]
    /\ last_op' = "process_batch"
    /\ UNCHANGED <<input_text, converted_data, processing, ui, messagebox,
                   threads, after_queue, runs, call, excel_file, frame,
                   handler>>

\* lines 258-260 and 277-280: next range element, the cancel test; leaving
\* the loop runs the finally clause and returns
BdpCheck ==
    /\ bdp.pc = "check"
    /\ bdp' = IF bdp.i >= Len(bdp.lines) \/ bdp.cancelled
              THEN [bdp EXCEPT !.processing = FALSE, !.pc = "idle",
                               !.outcome = "returned",
                               !.result = bdp.processed_data]
              ELSE [bdp EXCEPT !.pc = "chunk"]
    /\ last_op' = "process_batch"
    /\ UNCHANGED <<input_text, converted_data, processing, ui, messagebox,
                   threads, after_queue, runs, call, excel_file, frame,
                   handler>>

\* lines 262-275: one chunk; an exception runs the finally clause and leaves
\* process_batch
BdpChunk ==
    /\ bdp.pc = "chunk"
    /\ LET batch_end == Min(bdp.i + BdpBatchSize, Len(bdp.lines))
           batch_data == process_batch_lines(SubSeq(bdp.lines, bdp.i + 1, batch_end))
       IN bdp' =
            IF batch_data.raised
            THEN [bdp EXCEPT !.processing = FALSE, !.pc = "idle",
                             !.outcome = "raised", !.result = <<>>]
            ELSE [bdp EXCEPT
                    !.processed_data = @ \o batch_data.data,
                    !.progress = Append(@,
                        [progress |-> Progress(bdp.i, batch_end - bdp.i,
                                               Len(bdp.lines)),
                         from |-> bdp.i + 1, to |-> batch_end]),
                    !.i = bdp.i + BdpBatchSize,
                    !.pc = "check"]
    /\ last_op' = "process_batch"
    /\ UNCHANGED <<input_text, converted_data, processing, ui, messagebox,
                   threads, after_queue, runs, call, excel_file, frame,
                   handler>>

\* BatchDataProcessor.cancel_processing, called by another thread than the
\* one in process_batch. Line 315: self.cancelled = True. The call is "again"
\* when it starts right after a cancel_processing call returned
BdpCancel ==
    /\ bdp.cancel_pc = "idle"
    /\ bdp' = [bdp EXCEPT !.cancelled = TRUE, !.cancel_pc = "316"]
    /\ last_op' = IF last_op \in {"bdp_cancel_processing",
                                  "bdp_cancel_processing_again"}
                  THEN "bdp_cancel_315_again"
                  ELSE "bdp_cancel_315"
    /\ UNCHANGED <<input_text, converted_data, processing, ui, messagebox,
                   threads, after_queue, runs, call, excel_file, frame,
                   handler>>

\* line 316: self.processing = False, and the call returns
BdpCancelRest ==
    /\ bdp.cancel_pc = "316"
    /\ bdp' = [bdp EXCEPT !.processing = FALSE, !.cancel_pc = "idle"]
    /\ last_op' = IF last_op = "bdp_cancel_315_again"
                  THEN "bdp_cancel_processing_again"
                  ELSE "bdp_cancel_processing"
    /\ UNCHANGED <<input_text, converted_data, processing, ui, messagebox,
                   threads, after_queue, runs, call, excel_file, frame,
                   handler>>

NextBatch ==
    \/ BdpProcessBatch
    \/ BdpFlags
    \/ BdpCheck
    \/ BdpChunk
    \/ BdpCancel
    \/ BdpCancelRest

\* -------------------------------------------------------- specifications
\* every interleaving of the handlers and up to MaxRuns conversion threads,
\* none of which raises
Next == NextTranslator

Spec == Init /\ [][Next]_vars

\* no conversion thread is started after the first
SingleThread == \A r \in RunIds : r > 1 => threads'[r] = threads[r]

\* one asynchronous run, exceptions included, with every interleaving of the
\* handlers
NextRun ==
    \/ show
    \/ clear_file
    \/ convert_and_preview /\ SingleThread
    \/ convert_sync_rest
    \/ cancel_processing
    \/ update_progress
    \/ conversion_completed
    \/ conversion_completed_rest
    \/ conversion_failed
    \/ convert_async(1)
    \/ convert_async_except(1)

SpecRun == InitRun /\ [][NextRun]_vars

\* texts for the parsers: up to MaxLines lines of every sample shape
ParserLines ==
    { GoodLine, JunkLine, <<"1", "=", "a">>, <<"#", "1", "=", "a">>,
      <<"#", TAB, "a">>, <<"a", TAB, "b">>, <<SP>> }

ParserInputs ==
    { Join(ls, NL) : ls \in UNION { [1..n -> ParserLines] : n \in 1..MaxLines } }
        \cup { <<>> }

InitBatch ==
    /\ input_text \in ParserInputs
    /\ bdp \in { NewBdp(kind) : kind \in ProcessorKinds }
    /\ excel_file = NoFile
    /\ InitTranslator

\* the BatchDataProcessor alone, over the parser texts
SpecBatch == InitBatch /\ [][NextBatch]_vars

\* ------------------------------------------------- the parsers, called
\* the characters of the texts enumerated whole
Alphabet == {"1", "a", "=", TAB, SP, NL, "#"}

\* line shapes: id=value tokens, lines without a match, marker lines, and
\* tab-separated lines with two, three and four fields, blank fields included
ShapeLines ==
    { <<"1", "=", "a">>, <<"1", "2", "=", "b">>, <<"2", "=", "a", "=", "1">>,
      <<"1", "=", "a", SP, "2", "=", "b">>,
      <<"a">>, <<"1", "=">>, <<"#", "1", "=", "a">>,
      GoodLine, <<"#">> \o GoodLine, <<SP>> \o GoodLine, <<TAB>> \o GoodLine,
      <<"1", TAB, "a">>, <<"a", TAB, "a", TAB, "b">>,
      <<"1", TAB, "a", TAB, "b", TAB, "a">>,
      <<"1", TAB, "a", TAB>>, <<"1", TAB, TAB, "b">>,
      <<"1", TAB, SP, TAB, "b">>, <<"1", TAB, "a", TAB, TAB>>,
      <<"1", TAB, "a", TAB, TAB, "b">> }

ParseInputs ==
    UNION { [1..n -> Alphabet] : n \in 0..MaxChars }
        \cup { Join(ls, NL) :
                 ls \in UNION { [1..n -> ShapeLines] : n \in 1..MaxParseLines } }

InitParse ==
    /\ input_text \in ParseInputs
    /\ bdp = NewBdp("excel_translation")
    /\ excel_file = NoFile
    /\ InitTranslator

\* one call of a parser function on the text, its return value kept
Called(fn, result) ==
    /\ call' = [fn |-> fn, arg |-> input_text, result |-> result]
    /\ last_op' = fn
    /\ UNCHANGED <<input_text, converted_data, processing, ui, messagebox,
                   threads, after_queue, runs, bdp, excel_file, frame,
                   handler>>

CallConvertIdValues == Called("convert_id_values", convert_id_values(input_text))

CallIDValueProcess == Called("IDValueProcessor.process", IDValueProcess(input_text))

CallIDValueValidate == Called("IDValueProcessor.validate", IdValueValidate(input_text))

CallExcelProcess == Called("ExcelTranslationProcessor.process", ExcelProcess(input_text))

CallExcelValidate == Called("ExcelTranslationProcessor.validate", ExcelValidate(input_text))

CallConvertExcelData == Called("convert_excel_data", convert_excel_data(input_text))

\* convert_batch as convert_async calls it: on the filtered, stripped lines
CallConvertBatch == Called("convert_batch", convert_batch(FilterLines(input_text)))

NextParse ==
    \/ CallConvertIdValues
    \/ CallIDValueProcess
    \/ CallIDValueValidate
    \/ CallExcelProcess
    \/ CallExcelValidate
    \/ CallConvertExcelData
    \/ CallConvertBatch

SpecParse == InitParse /\ [][NextParse]_vars

\* ------------------------------------------------------ the Excel reader
\* a cell without a value, as pandas reads it
NaN == <<"NaN">>

\* pd.notna(cell)
notna(cell) == cell # NaN

\* str(cell): a missing cell prints as nan
str(cell) == IF cell = NaN THEN <<"n", "a", "n">> ELSE cell

\* a reader that keeps the first n rows
head(rows, n) == IF Len(rows) > n THEN SubSeq(rows, 1, n) ELSE rows

\* df.tail(n)
tail(rows, n) ==
    IF Len(rows) > n THEN SubSeq(rows, Len(rows) - n + 1, Len(rows)) ELSE rows

\* the line built from one row: str of the id, the second and third cell
\* empty when missing, tab-separated, newline-ended
RowText(row) ==
    LET id_value == str(row[1])
        chinese_value == IF notna(row[2]) THEN str(row[2]) ELSE <<>>
        korean_value == IF notna(row[3]) THEN str(row[3]) ELSE <<>>
    IN id_value \o <<TAB>> \o chinese_value \o <<TAB>> \o korean_value \o <<NL>>

\* text_content after the row loop
RECURSIVE TextContent(_)
TextContent(rows) ==
    IF rows = <<>> THEN <<>>
    ELSE RowText(Head(rows)) \o TextContent(Tail(rows))

\* the content of every column past the third
ExtraCell == <<"x">>

\* the rows of a table of ncols columns: an id (two values, so that order
\* shows) or none, then both cells, or one of them missing
RowsOf(ncols) ==
    { SubSeq(<<id>> \o rest \o <<ExtraCell>>, 1, ncols) :
        id \in {<<"1">>, <<"2">>, NaN},
        rest \in { <<<<"a">>, <<"b">>>>, <<NaN, <<"b">>>>, <<<<"a">>, NaN>> } }

\* the tables pd.read_excel can return: two to four columns, rows up to
\* above the cap
Tables ==
    UNION { { [ncols |-> n, rows |-> rs] :
                rs \in UNION { [1..m -> RowsOf(n)] : m \in 0..MaxRows } } :
            n \in 2..4 }

\* what the selected path can be instead of a table: a file pd.read_excel
\* raises on, or a path os.path.getsize raises on
BadFiles ==
    { [ncols |-> 0, rows |-> <<>>, raises |-> fn] :
        fn \in {"read_excel", "getsize"} }

\* the call fn raises for the selected file
Raises(fn) == "raises" \in DOMAIN excel_file /\ excel_file.raises = fn

\* the except block of a reader up to its dialog: pd.read_excel raised after
\* the widgets got `label` and `progress`, showerror is up, and the handler
\* goes on once it is dismissed
ReadFailed(fn, label, progress) ==
    /\ messagebox' = "read_error"
    /\ ui' = [ui EXCEPT !.status_label = label, !.progress_var = progress]
    /\ call' = [fn |-> fn, arg |-> excel_file.rows, result |-> <<"read_error">>]
    /\ handler' = Append(handler, "load_failed")
    /\ last_op' = "load_excel_file_failed"
    /\ UNCHANGED <<input_text, frame>>

\* the except block of a reader after its dialog: the progress bar and the
\* status label
load_failed_rest ==
    /\ At("load_failed")
    /\ ui' = [ui EXCEPT !.progress_var = Pct(0),
                        !.status_label = <<"load_failed">>]
    /\ handler' = Returned
    /\ last_op' = "load_excel_file_failed"
    /\ UNCHANGED <<input_text, converted_data, processing, messagebox,
                   threads, after_queue, runs, bdp, call, excel_file, frame>>

\* a reader that empties the input widget before it looks at the columns
load_small_excel_file_delete_first ==
    /\ IF Raises("read_excel")
        THEN ReadFailed("load_small_excel_file", <<"reading">>, Pct(25))
        ELSE IF excel_file.ncols < 3
        THEN /\ messagebox' = "need_columns"
             /\ ui' = [ui EXCEPT !.status_label = <<"reading">>,
                                 !.progress_var = Pct(25)]
             /\ call' = [fn |-> "load_small_excel_file",
                         arg |-> excel_file.rows,
                         result |-> <<"need_columns">>]
             /\ input_text' = <<>>
             /\ last_op' = "load_small_excel_file"
             /\ UNCHANGED <<handler, frame>>
        ELSE /\ input_text' = Strip(TextContent(excel_file.rows))
             /\ ui' = [ui EXCEPT !.status_label = <<"loaded">>,
                                 !.progress_var = Pct(100),
                                 !.status_bar =
                                     <<"loaded", Len(excel_file.rows)>>]
             /\ call' = [fn |-> "load_small_excel_file",
                         arg |-> excel_file.rows, result |-> <<>>]
             /\ last_op' = "load_small_excel_file"
             /\ UNCHANGED <<messagebox, handler, frame>>
    /\ UNCHANGED <<converted_data, processing, threads, after_queue, runs, bdp,
                   excel_file>>

\* load_small_excel_file: the table is read (pd.read_excel raising goes to
\* the except block), the column check, then every row as a line
load_small_excel_file ==
    /\ IF Raises("read_excel")
        THEN ReadFailed("load_small_excel_file", <<"reading">>, Pct(25))
        ELSE IF excel_file.ncols < 3
        THEN /\ messagebox' = "need_columns"
             /\ ui' = [ui EXCEPT !.status_label = <<"reading">>,
                                 !.progress_var = Pct(25)]
             /\ call' = [fn |-> "load_small_excel_file",
                         arg |-> excel_file.rows,
                         result |-> <<"need_columns">>]
             /\ last_op' = "load_small_excel_file"
             /\ UNCHANGED <<input_text, handler, frame>>
        ELSE /\ input_text' = Strip(TextContent(excel_file.rows))
             /\ ui' = [ui EXCEPT !.status_label = <<"loaded">>,
                                 !.progress_var = Pct(100),
                                 !.status_bar =
                                     <<"loaded", Len(excel_file.rows)>>]
             /\ call' = [fn |-> "load_small_excel_file",
                         arg |-> excel_file.rows, result |-> <<>>]
             /\ last_op' = "load_small_excel_file"
             /\ UNCHANGED <<messagebox, handler, frame>>
    /\ UNCHANGED <<converted_data, processing, threads, after_queue, runs, bdp,
                   excel_file>>

\* the locals of load_large_excel_file when its batch loop starts: the rows
\* kept, the loop index, the text built so far
LoadFrame(df_full) ==
    [fn |-> "load_large_excel_file", df_full |-> df_full, i |-> 0,
     text_content |-> <<>>]

\* load_large_excel_file, lines 486-517, to its first dialog or to the head
\* of its batch loop: the first 1000 rows are read for the column check
\* (pd.read_excel raising goes to the except block), with its warning and
\* return; the table is read in full; a table above the cap is cut to its
\* last RowCap rows and the truncation warning shown, a modal dialog in
\* whose wait the due callbacks run; else the widgets of lines 509-510
load_large_excel_file ==
    /\ IF Raises("read_excel")
        THEN ReadFailed("load_large_excel_file", <<"reading">>, Pct(10))
        ELSE IF excel_file.ncols < 3
        THEN /\ messagebox' = "need_columns"
             /\ ui' = [ui EXCEPT !.status_label = <<"reading">>,
                                 !.progress_var = Pct(10)]
             /\ call' = [fn |-> "load_large_excel_file",
                         arg |-> excel_file.rows,
                         result |-> <<"need_columns">>]
             /\ last_op' = "load_large_excel_file"
             /\ UNCHANGED <<input_text, handler, frame>>
        ELSE IF Len(excel_file.rows) > RowCap
        THEN /\ messagebox' = "truncated"
             /\ ui' = [ui EXCEPT !.status_label = <<"structure">>,
                                 !.progress_var = Pct(20)]
             /\ call' = [fn |-> "load_large_excel_file",
                         arg |-> excel_file.rows,
                         result |-> <<"truncated">>]
             /\ frame' = LoadFrame(tail(excel_file.rows, RowCap))
             /\ handler' = Append(handler, "load_warning")
             /\ last_op' = "load_large_excel_file_warning"
             /\ UNCHANGED input_text
        ELSE /\ ui' = [ui EXCEPT !.status_label = <<"processing">>,
                                 !.progress_var = Pct(40)]
             /\ call' = [fn |-> "load_large_excel_file",
                         arg |-> excel_file.rows, result |-> <<>>]
             /\ frame' = LoadFrame(excel_file.rows)
             /\ handler' = Append(handler, "load_batch")
             /\ last_op' = "load_large_excel_file_batch"
             /\ UNCHANGED <<input_text, messagebox>>
    /\ UNCHANGED <<converted_data, processing, threads, after_queue, runs, bdp,
                   excel_file>>

\* load_large_excel_file after the truncation warning was dismissed, lines
\* 509-517: the widgets over whatever a callback wrote while the dialog was
\* up, then the batch loop
load_large_excel_file_rest ==
    /\ At("load_warning")
    /\ ui' = [ui EXCEPT !.status_label = <<"processing">>,
                        !.progress_var = Pct(40)]
    /\ handler' = Append(Returned, "load_batch")
    /\ last_op' = "load_large_excel_file_batch"
    /\ UNCHANGED <<input_text, converted_data, processing, messagebox,
                   threads, after_queue, runs, bdp, call, excel_file, frame>>

\* one batch of load_large_excel_file, lines 519-536: the rows of the batch
\* as lines, the progress bar and the status label, then the sleep, during
\* which the conversion threads run and no callback does
load_large_excel_file_batch ==
    LET total_rows == Len(frame.df_full)
        batch_end == Min(frame.i + LoadBatchSize, total_rows)
    IN
    /\ At("load_batch")
    /\ frame.i < total_rows
    /\ frame' = [frame EXCEPT
                   !.text_content =
                       @ \o TextContent(SubSeq(frame.df_full, frame.i + 1,
                                               batch_end)),
                   !.i = @ + LoadBatchSize]
    /\ ui' = [ui EXCEPT !.progress_var =
                            [num |-> 40 * total_rows + 60 * batch_end,
                             den |-> total_rows],
                        !.status_label = <<"rows", frame.i + 1, batch_end>>]
    /\ last_op' = "load_large_excel_file_batch"
    /\ UNCHANGED <<input_text, converted_data, processing, messagebox,
                   threads, after_queue, runs, bdp, call, excel_file,
                   handler>>

\* load_large_excel_file after its last batch, lines 538-544: the widgets,
\* the input widget emptied and given the stripped text, the status bar
load_large_excel_file_done ==
    /\ At("load_batch")
    /\ frame.i >= Len(frame.df_full)
    /\ input_text' = Strip(frame.text_content)
    /\ ui' = [ui EXCEPT !.status_label = <<"loaded">>,
                        !.progress_var = Pct(100),
                        !.status_bar = <<"loaded", Len(frame.df_full)>>]
    /\ frame' = NoFrame
    /\ handler' = Returned
    /\ last_op' = "load_large_excel_file"
    /\ UNCHANGED <<converted_data, processing, messagebox, threads,
                   after_queue, runs, bdp, call, excel_file>>

\* load_excel_file: the file size is read, files above 50 MB go to the
\* large-file reader; os.path.getsize raising goes to the except block, an
\* error dialog and the return
load_excel_file ==
    /\ MainIdle
    /\ IF Raises("getsize")
       THEN /\ messagebox' = "read_error"
            /\ call' = [fn |-> "load_excel_file", arg |-> excel_file.rows,
                        result |-> <<"read_error">>]
            /\ last_op' = "load_excel_file_failed"
            /\ UNCHANGED <<input_text, converted_data, processing, ui,
                           threads, after_queue, runs, bdp, excel_file,
                           frame, handler>>
       ELSE \E over_50_mb \in BOOLEAN :
                IF over_50_mb THEN load_large_excel_file
                ELSE load_small_excel_file

\* the translator when convert_and_preview has started a conversion thread
\* for `text`
ConversionStarted(text) ==
    /\ input_text = text
    /\ converted_data = <<>>
    /\ processing = TRUE
    /\ ui = [progress_var |-> Pct(0), status_label |-> <<"starting">>,
             cancel_button |-> "normal", status_bar |-> <<"ready">>]
    /\ messagebox = "none"
    /\ threads = [r \in RunIds |->
                    IF r = 1
                    THEN [NoThread EXCEPT !.pc = "start", !.input_data = text]
                    ELSE NoThread]
    /\ after_queue = <<>>
    /\ runs = [r \in RunIds |-> NoRun]
    /\ last_op = "convert_and_preview"
    /\ handler = <<>>
    /\ frame = NoFrame
    /\ call = NoCall

\* tables above the cap with every cell present
FullTables ==
    { t \in Tables :
        /\ t.ncols = 3
        /\ Len(t.rows) = RowCap + 1
        /\ \A k \in 1..Len(t.rows) : \A j \in 1..3 : notna(t.rows[k][j]) }

\* a file is selected in the translator as constructed, or while a
\* conversion thread runs
InitLoad ==
    /\ bdp = NewBdp("excel_translation")
    /\ \/ /\ input_text = ExampleText
          /\ excel_file \in Tables \cup BadFiles
          /\ InitTranslator
       \/ /\ excel_file \in FullTables
          /\ ConversionStarted(TextOf(AsyncThreshold + 1, 2))

\* the reader, the button that restores the example text, the conversion
\* thread and its callbacks
NextLoad ==
    \/ load_excel_file
    \/ load_large_excel_file_rest
    \/ load_large_excel_file_batch
    \/ load_large_excel_file_done
    \/ load_failed_rest
    \/ clear_file
    \/ convert_async(1)
    \/ update_progress
    \/ conversion_completed
    \/ conversion_completed_rest

SpecLoad == InitLoad /\ [][NextLoad]_vars

\* --------------------------------------------- one run left undisturbed
\* line shapes the two conversions filter differently: a marker after a
\* blank, a leading '=', a blank line, next to data lines and junk
AsyncLines ==
    { GoodLine, <<"2", TAB, "a", TAB, "a">>, JunkLine,
      <<SP, "#">> \o GoodLine, <<"=", TAB, "a", TAB, "b">>, <<SP>> }

AsyncInputs ==
    { Join(ls, NL) :
        ls \in UNION { [1..n -> AsyncLines] :
                         n \in (AsyncThreshold + 1)..MaxLines } }

InitAsync ==
    /\ input_text \in AsyncInputs
    /\ bdp = NewBdp("excel_translation")
    /\ excel_file = NoFile
    /\ InitTranslator

\* one conversion, never cancelled, no other handler in between
NextAsync ==
    \/ convert_and_preview /\ SingleThread
    \/ convert_sync_rest
    \/ update_progress
    \/ conversion_completed
    \/ conversion_completed_rest
    \/ convert_async(1)

SpecAsync == InitAsync /\ [][NextAsync]_vars

\* ------------------------------------------------------- clearing the data
\* clear_data: after the confirmation both text widgets and converted_data
\* are emptied, whether or not a conversion is running
clear_data ==
    \E confirmed \in BOOLEAN :
        /\ MainIdle
        /\ last_op' = "clear_data"
        /\ IF confirmed
           THEN /\ input_text' = <<>>
                /\ converted_data' = <<>>
                /\ ui' = [ui EXCEPT !.status_bar = <<"cleared">>]
           ELSE UNCHANGED <<input_text, converted_data, ui>>
        /\ UNCHANGED <<processing, messagebox, threads, after_queue, runs,
                       bdp, call, excel_file, frame,
                   handler>>

InitClear ==
    /\ input_text \in Inputs
    /\ bdp = NewBdp("excel_translation")
    /\ excel_file = NoFile
    /\ InitTranslator

\* one asynchronous run that is never cancelled, and the clear button
NextClear ==
    \/ convert_and_preview /\ SingleThread
    \/ convert_sync_rest
    \/ clear_data
    \/ update_progress
    \/ conversion_completed
    \/ conversion_completed_rest
    \/ convert_async(1)

SpecClear == InitClear /\ [][NextClear]_vars

\* ------------------------------------------------------------- the export
\* what f.write(s) puts in a file opened in text mode with the given
\* newline argument on a platform with the given os.linesep: newline=''
\* writes the characters as they are, the default turns each "\n" into
\* os.linesep
RECURSIVE write(_, _, _)
write(s, newline, linesep) ==
    IF s = <<>> THEN <<>>
    ELSE (IF Head(s) = NL /\ newline = "None" THEN linesep ELSE <<Head(s)>>)
             \o write(Tail(s), newline, linesep)

\* the newline argument of the open calls of the export functions
OpenNewline == "''"

Platforms == { <<NL>>, <<CR, NL>> }

\* for row in rows: f.write(f"{row['Output']}\n"), over a list no thread
\* has a reference to
RECURSIVE WriteRows(_, _)
WriteRows(rows, linesep) ==
    IF rows = <<>> THEN <<>>
    ELSE write(Head(rows).Output \o <<NL>>, OpenNewline, linesep)
             \o WriteRows(Tail(rows), linesep)

\* nothing written
NoExport == [path |-> "none", content |-> <<>>, progress |-> <<>>]

\* the record of an export call that has closed its file or returned
\* without one, for the records self.converted_data held when it was called
Exported(fn, arg, result) ==
    /\ call' = [fn |-> fn, arg |-> arg, result |-> result]
    /\ UNCHANGED <<input_text, converted_data, processing, threads,
                   after_queue, runs, bdp, excel_file>>

\* the locals of a write loop `for row in self.converted_data` when it
\* starts: the list object the loop goes over is the one the attribute is
\* bound to, until line 203 binds the attribute to a new list (see Rebound)
WriteFrame(fn, arg, linesep) ==
    [fn |-> fn, arg |-> arg, linesep |-> linesep, live |-> TRUE,
     rows |-> <<>>, idx |-> 0, content |-> <<>>]

\* one turn of `for row in self.converted_data: f.write(...)`, lines
\* 318-321 and 596-599: the next row of the list the loop goes over, as
\* that list is now, is written; past its end the file is closed and the
\* success dialog shown
WriteLoop(fn) ==
    LET rows == IF frame.live THEN converted_data ELSE frame.rows IN
    /\ At("export_write")
    /\ frame.fn = fn
    /\ IF frame.idx < Len(rows)
       THEN /\ frame' = [frame EXCEPT
                           !.content =
                               @ \o write(rows[frame.idx + 1].Output
                                              \o <<NL>>,
                                          OpenNewline, frame.linesep),
                           !.idx = @ + 1]
            /\ UNCHANGED <<messagebox, call, handler>>
       ELSE /\ messagebox' = "saved"
            /\ call' = [fn |-> fn, arg |-> frame.arg,
                        result |-> [path |-> "single",
                                    content |-> frame.content,
                                    progress |-> <<>>]]
            /\ handler' = Append(Returned, "export_saved")
            /\ frame' = [fn |-> fn]
    /\ last_op' = fn
    /\ UNCHANGED <<input_text, converted_data, processing, ui, threads,
                   after_queue, runs, bdp, excel_file>>

\* lines 322 and 600, after the success dialog: the status bar
SavedRest(fn) ==
    /\ At("export_saved")
    /\ frame.fn = fn
    /\ ui' = [ui EXCEPT !.status_bar = <<"exported">>]
    /\ handler' = Returned
    /\ frame' = NoFrame
    /\ last_op' = fn
    /\ UNCHANGED <<input_text, converted_data, processing, messagebox,
                   threads, after_queue, runs, bdp, call, excel_file>>

\* export_small_file, line 317: the file is opened and the write loop
\* starts; open raising goes to the except block, an error dialog and the
\* return
export_small_file ==
    /\ MainIdle
    /\ \E open_raises \in BOOLEAN, linesep \in Platforms :
           IF open_raises
           THEN /\ Exported("export_small_file", converted_data, NoExport)
                /\ messagebox' = "export_failed"
                /\ UNCHANGED <<handler, frame>>
           ELSE /\ frame' = WriteFrame("export_small_file", converted_data,
                                       linesep)
                /\ handler' = Append(handler, "export_write")
                /\ UNCHANGED <<input_text, converted_data, processing,
                               messagebox, threads, after_queue, runs, bdp,
                               call, excel_file>>
    /\ last_op' = "export_small_file"
    /\ UNCHANGED ui

\* export_small_file, lines 318-321
export_small_file_row == WriteLoop("export_small_file")

\* export_small_file, line 322
export_small_file_rest == SavedRest("export_small_file")

\* range(0, total_rows, batch_size) of export_large_file
NextBatchStart(i) == i + ExportBatchSize

\* export_large_file, lines 330-336: the widgets, the record count read
\* once, the file opened; open raising goes to the except block and its
\* error dialog
export_large_file ==
    /\ MainIdle
    /\ ui' = [ui EXCEPT !.status_label = <<"exporting">>,
                        !.progress_var = Pct(0)]
    /\ \E open_raises \in BOOLEAN, linesep \in Platforms :
           IF open_raises
           THEN /\ Exported("export_large_file", converted_data, NoExport)
                /\ messagebox' = "export_failed"
                /\ frame' = [fn |-> "export_large_file"]
                /\ handler' = Append(handler, "export_failed")
           ELSE /\ frame' = [fn |-> "export_large_file",
                             arg |-> converted_data, linesep |-> linesep,
                             total_rows |-> Len(converted_data), i |-> 0,
                             content |-> <<>>, progress |-> <<>>]
                /\ handler' = Append(handler, "export_batch")
                /\ UNCHANGED <<input_text, converted_data, processing,
                               messagebox, threads, after_queue, runs, bdp,
                               call, excel_file>>
    /\ last_op' = "export_large_file"

\* one batch of export_large_file, lines 337-346: the slice of
\* self.converted_data as it is now, its rows written, the progress bar and
\* the status label
export_large_file_batch ==
    LET batch == Slice(converted_data, frame.i, ExportBatchSize)
        progress == Progress(frame.i, ExportBatchSize, frame.total_rows)
    IN
    /\ At("export_batch")
    /\ frame.i < frame.total_rows
    /\ frame' = [frame EXCEPT
                   !.content = @ \o WriteRows(batch, frame.linesep),
                   !.progress = Append(@, progress),
                   !.i = NextBatchStart(@)]
    /\ ui' = [ui EXCEPT !.progress_var = progress,
                        !.status_label =
                            <<"exporting", frame.i + 1,
                              Min(frame.i + ExportBatchSize,
                                  frame.total_rows)>>]
    /\ last_op' = "export_large_file"
    /\ UNCHANGED <<input_text, converted_data, processing, messagebox,
                   threads, after_queue, runs, bdp, call, excel_file,
                   handler>>

\* export_large_file after its last batch, lines 348-351: the file closed,
\* the widgets, the success dialog with the count read at the start
export_large_file_done ==
    /\ At("export_batch")
    /\ frame.i >= frame.total_rows
    /\ Exported("export_large_file", frame.arg,
                [path |-> "batched", content |-> frame.content,
                 progress |-> frame.progress])
    /\ ui' = [ui EXCEPT !.progress_var = Pct(100),
                        !.status_label = <<"exported">>]
    /\ messagebox' = "saved"
    /\ handler' = Append(Returned, "export_saved")
    /\ frame' = [fn |-> "export_large_file", total_rows |-> frame.total_rows]
    /\ last_op' = "export_large_file"

\* export_large_file, line 352 after the success dialog: the status bar
\* with the count read at the start; lines 356-357 after the error dialog
export_large_file_rest ==
    /\ frame.fn = "export_large_file"
    /\ \/ /\ At("export_saved")
          /\ ui' = [ui EXCEPT !.status_bar = <<"exported", frame.total_rows>>]
       \/ /\ At("export_failed")
          /\ ui' = [ui EXCEPT !.progress_var = Pct(0),
                              !.status_label = <<"export_failed">>]
    /\ handler' = Returned
    /\ frame' = NoFrame
    /\ last_op' = "export_large_file"
    /\ UNCHANGED <<input_text, converted_data, processing, messagebox,
                   threads, after_queue, runs, bdp, call, excel_file>>

\* export_text as the class ends up defining it: the second definition
\* replaces the first, so every export is written in one pass here. Lines
\* 577-589: the emptiness test with its warning and return, else the file
\* dialog, a modal dialog in whose wait the due callbacks run
export_text ==
    /\ MainIdle
    /\ IF converted_data = <<>>
       THEN /\ Exported("export_text", converted_data, NoExport)
            /\ messagebox' = "no_data"
            /\ UNCHANGED <<handler, frame>>
       ELSE /\ frame' = [fn |-> "export_text", arg |-> converted_data]
            /\ handler' = Append(handler, "export_ask")
            /\ UNCHANGED <<input_text, converted_data, processing,
                           messagebox, threads, after_queue, runs, bdp, call,
                           excel_file>>
    /\ last_op' = "export_text"
    /\ UNCHANGED ui

\* export_text after the file dialog, lines 591-595: the return when no
\* file was chosen, else the file is opened and the write loop starts; open
\* raising goes to the except block, an error dialog and the return
export_text_chosen ==
    /\ At("export_ask")
    /\ \E file_chosen \in BOOLEAN, open_raises \in BOOLEAN,
          linesep \in Platforms :
           IF ~file_chosen
           THEN /\ Exported("export_text", frame.arg, NoExport)
                /\ handler' = Returned
                /\ frame' = NoFrame
                /\ UNCHANGED messagebox
           ELSE IF open_raises
           THEN /\ Exported("export_text", frame.arg, NoExport)
                /\ messagebox' = "export_failed"
                /\ handler' = Returned
                /\ frame' = NoFrame
           ELSE /\ frame' = WriteFrame("export_text", frame.arg, linesep)
                /\ handler' = Append(Returned, "export_write")
                /\ UNCHANGED <<input_text, converted_data, processing,
                               messagebox, threads, after_queue, runs, bdp,
                               call, excel_file>>
    /\ last_op' = "export_text"
    /\ UNCHANGED ui

\* export_text, lines 596-599
export_text_row == WriteLoop("export_text")

\* export_text, line 600
export_text_rest == SavedRest("export_text")

\* the lines converted before an export: plain, with a blank second field,
\* and with a carriage return inside the third field
ExportLines ==
    { GoodLine, <<"2", TAB, TAB, "a">>, <<"1", TAB, "a", TAB, "b", CR, "b">> }

ExportTexts ==
    { Join(ls, NL) :
        ls \in UNION { [1..n -> ExportLines] : n \in 0..MaxRecords } }

\* a text above the asynchronous threshold whose records differ from their
\* neighbours
AsyncExportText ==
    Join([k \in 1..MaxLines |->
             IF k % 2 = 1 THEN GoodLine ELSE <<"2", TAB, TAB, "a">>], NL)

\* the translator when a conversion of `text` has completed and
\* convert_and_preview has started the next one: converted_data holds the
\* records of the first, the thread of the second has not run yet
ConvertingAgain(text) ==
    LET lines == FilterLines(text)
        total_lines == Len(lines)
        chunks == (total_lines + AsyncBatchSize - 1) \div AsyncBatchSize
        last == (chunks - 1) * AsyncBatchSize
    IN
    /\ input_text = text
    /\ converted_data = convert_batch(lines)
    /\ processing = TRUE
    /\ ui = [progress_var |-> Pct(0), status_label |-> <<"starting">>,
             cancel_button |-> "normal",
             status_bar |-> <<"done", Len(convert_batch(lines))>>]
    /\ messagebox = "completed"
    /\ threads = [r \in RunIds |->
                    IF r = 1
                    THEN [pc |-> "done", input_data |-> text, lines |-> lines,
                          i |-> chunks * AsyncBatchSize, exit |-> "exhausted"]
                    ELSE IF r = 2
                    THEN [NoThread EXCEPT !.pc = "start", !.input_data = text]
                    ELSE NoThread]
    /\ after_queue = <<>>
    /\ runs = [r \in RunIds |->
                 IF r = 1
                 THEN [NoRun EXCEPT
                         !.outcome = "completed", !.delivered = chunks,
                         !.last_i = last,
                         !.last_pct = Progress(last, AsyncBatchSize,
                                               total_lines)]
                 ELSE NoRun]
    /\ last_op = "convert_and_preview"
    /\ handler = <<>>
    /\ frame = NoFrame
    /\ call = NoCall

\* a text is in the input widget of the translator as constructed, or a
\* second conversion has been started after a first one completed
InitExport ==
    /\ bdp = NewBdp("excel_translation")
    /\ excel_file = NoFile
    /\ \/ input_text \in ExportTexts /\ InitTranslator
       \/ ConvertingAgain(AsyncExportText)

\* the text is converted on the calling thread, then exported
ConvertForExport ==
    /\ MainIdle
    /\ convert_sync(input_text)
    /\ last_op' = "convert_sync"
    /\ UNCHANGED input_text

\* the conversion on the calling thread, the three export functions, the
\* second conversion thread and its callbacks
NextExport ==
    \/ ConvertForExport
    \/ convert_sync_rest
    \/ export_text
    \/ export_small_file
    \/ export_large_file
    \/ export_small_file_row
    \/ export_small_file_rest
    \/ export_large_file_batch
    \/ export_large_file_done
    \/ export_large_file_rest
    \/ export_text_chosen
    \/ export_text_row
    \/ export_text_rest
    \/ convert_async(2)
    \/ update_progress
    \/ conversion_completed
    \/ conversion_completed_rest

SpecExport == InitExport /\ [][NextExport]_vars

\* ------------------------------------------------------------------ claims
\* the progress events of run r still in the callback queue, in queue order
QueuedProgress(r) ==
    SelectSeq(after_queue, LAMBDA e : e.run = r /\ e.kind = "progress")

\* more than one chunk
MultiChunk(r) == Len(threads[r].lines) > AsyncBatchSize

\* C1: at every moment at most one convert_async thread is started and not
\* yet out of its chunk loop.
C1_SingleWorker == Cardinality({ r \in RunIds : InLoop(r) }) <= 1

\* C2: convert_and_preview called while a run is in progress (started, not
\* completed, failed or cancelled) shows the busy warning, starts no thread
\* and leaves converted_data and processing as they were.
C2_BusyRejection ==
    [][ (last_op' = "convert_and_preview" /\ \E r \in RunIds : RunActive(r))
            => /\ messagebox' = "busy"
               /\ UNCHANGED <<converted_data, processing, threads>> ]_vars

\* C3: once cancel_processing was invoked during an active run, the
\* completion callback never runs for that run.
C3_NoCompletionAfterCancel ==
    \A r \in RunIds : ~(runs[r].cancelled /\ runs[r].outcome = "completed")

\* C4: a run of more than one chunk that is cancelled after its first
\* progress event was delivered gets no completion callback, and the last
\* progress event delivered for it is below 100 percent.
C4_CancelAfterFirstProgress ==
    \A r \in RunIds :
        (runs[r].cancelled /\ runs[r].seen_at_cancel >= 1 /\ MultiChunk(r))
            => /\ runs[r].outcome # "completed"
               /\ PctLess(runs[r].last_pct, Pct(100))

\* C5: after cancel at most the one chunk in progress is appended by the
\* cancelled run and no later chunk is started.
C5_OneChunkAfterCancel ==
    \A r \in RunIds :
        runs[r].cancelled =>
            /\ runs[r].after_cancel <= 1
            /\ (runs[r].after_cancel = 1 => threads[r].pc # "batch")

\* C6: a cancel invoked right after a cancel returned changes nothing, for
\* the translator and for the BatchDataProcessor (neither of the two
\* assignments of the second call changes a flag), with or without a run
\* active.
C6_CancelIdempotent ==
    [][ /\ last_op' = "cancel_processing_again"
            => UNCHANGED <<input_text, converted_data, processing, ui,
                           messagebox, threads, after_queue, runs, bdp>>
        /\ last_op' \in {"bdp_cancel_315_again", "bdp_cancel_processing_again"}
            => /\ [bdp' EXCEPT !.cancel_pc = "idle"]
                      = [bdp EXCEPT !.cancel_pc = "idle"]
               /\ UNCHANGED <<input_text, converted_data, processing, ui,
                              messagebox, threads, after_queue, runs>> ]_vars

\* C6: one cancel_processing call has returned and left the cancelled flag
\* clear with the chunk loop running; the next call sets it
C6_CancelLost ==
    /\ last_op = "bdp_cancel_processing"
    /\ bdp.cancel_pc = "idle"
    /\ ~bdp.cancelled
    /\ ~bdp.processing
    /\ bdp.pc \in {"check", "chunk"}

\* a percent between 0 and 100
InRange(p) == PctLeq(Pct(0), p) /\ PctLeq(p, Pct(100))

\* C7: the percents of a run's progress events lie in [0,100] and never
\* decrease, and when the completion callback has run for a run that went
\* through all its chunks, the last progress event delivered was 100.
C7_ProgressPercent ==
    \A r \in RunIds :
        LET q == QueuedProgress(r) IN
        /\ \A k \in 1..Len(q) : InRange(q[k].progress)
        /\ \A k \in 1..(Len(q) - 1) : PctLeq(q[k].progress, q[k + 1].progress)
        /\ InRange(runs[r].last_pct)
        /\ (runs[r].delivered > 0 /\ q # <<>>)
               => PctLeq(runs[r].last_pct, q[1].progress)
        /\ (runs[r].outcome = "completed" /\ threads[r].exit = "exhausted")
               => /\ runs[r].delivered > 0
                  /\ runs[r].last_pct.num = 100 * runs[r].last_pct.den

C7_Witness ==
    /\ runs[1].outcome = "completed"
    /\ threads[1].exit = "exhausted"
    /\ Len(threads[1].lines) % AsyncBatchSize # 0
    /\ runs[1].delivered >= 2

\* C8: the progress events of a run reach update_progress in strictly
\* increasing chunk order.
C8_ProgressOrder ==
    \A r \in RunIds :
        LET q == QueuedProgress(r) IN
        /\ \A k \in 1..(Len(q) - 1) : q[k].from < q[k + 1].from
        /\ q # <<>> => runs[r].last_i < q[1].from - 1

C8_Witness ==
    /\ last_op = "update_progress"
    /\ runs[1].delivered >= 2
    /\ runs[1].last_i > 0

\* C9: an exception raised in convert_async ends in the error callback and
\* nowhere else: the thread returns with conversion_failed scheduled and
\* nothing handed to threading.excepthook, no completion callback is
\* scheduled for the run, and right after conversion_failed the translator
\* is not processing.
C9_FailureReported ==
    /\ \A r \in RunIds :
          threads[r].exit = "raise" =>
              /\ threads[r].pc \in {"except", "done"}
              /\ ~runs[r].excepthook
              /\ threads[r].pc = "done"
                    => (Pending(r, "failed") \/ runs[r].outcome = "failed")
              /\ ~Pending(r, "completed")
              /\ runs[r].outcome # "completed"
    /\ last_op = "conversion_failed" => ~processing

\* C9: the exception has left the thread: nothing is scheduled, the error
\* callback has not run and the translator is still processing
C9_Unreported ==
    /\ threads[1].exit = "raise"
    /\ threads[1].pc = "done"
    /\ runs[1].excepthook
    /\ runs[1].outcome = "none"
    /\ ~runs[1].cancelled
    /\ after_queue = <<>>
    /\ processing

\* C10: process_batch on input the parser's validate rejects returns the
\* empty list, raises nothing, calls no progress callback and leaves the
\* processing and cancelled flags alone.
C10_InvalidInput ==
    [][ (last_op' = "process_batch" /\ bdp.pc = "idle"
             /\ ~Validate(bdp.processor, input_text))
            => /\ bdp'.outcome = "returned"
               /\ bdp'.result = <<>>
               /\ bdp'.pc = "idle"
               /\ bdp'.progress = bdp.progress
               /\ bdp'.processing = bdp.processing
               /\ bdp'.cancelled = bdp.cancelled ]_vars

C10_Witness ==
    /\ last_op = "process_batch"
    /\ bdp.pc = "idle"
    /\ bdp.data # <<>>
    /\ Strip(bdp.data) # <<>>
    /\ ~Validate(bdp.processor, bdp.data)
    /\ bdp.outcome = "returned"
    /\ bdp.cancelled

\* C11: process_batch on input that passes validation, not cancelled,
\* returns without raising the records the configured parser produces for
\* the input.
C11_BatchResult ==
    (/\ bdp.pc = "idle"
     /\ bdp.outcome # "none"
     /\ Validate(bdp.processor, bdp.data)
     /\ ~bdp.cancelled)
        => /\ bdp.outcome = "returned"
           /\ bdp.result = Process(bdp.processor, bdp.data)

\* C11: process_batch has raised out of its chunk loop on valid input
C11_Raised ==
    /\ bdp.pc = "idle"
    /\ bdp.outcome = "raised"
    /\ ~bdp.cancelled
    /\ Validate(bdp.processor, bdp.data)
    /\ Process(bdp.processor, bdp.data) # <<>>

\* the parser functions of the ID-value variant
IdParsers == {"convert_id_values", "IDValueProcessor.process"}

\* the maximal runs of non-whitespace characters of a text, in order
RECURSIVE TokensFrom(_, _)
TokensFrom(s, cur) ==
    IF s = <<>> THEN (IF cur = <<>> THEN <<>> ELSE <<cur>>)
    ELSE IF Head(s) \in Whitespace
    THEN (IF cur = <<>> THEN <<>> ELSE <<cur>>) \o TokensFrom(Tail(s), <<>>)
    ELSE TokensFrom(Tail(s), Append(cur, Head(s)))

Tokens(text) == TokensFrom(text, <<>>)

\* index of the first "=" of a token, 0 when it has none
FirstEq(tok) ==
    IF Contains(tok, "=")
    THEN CHOOSE k \in 1..Len(tok) :
            tok[k] = "=" /\ \A j \in 1..(k - 1) : tok[j] # "="
    ELSE 0

\* a well-formed occurrence: digits, "=", then at least one more character
IsOccurrence(tok) ==
    LET k == FirstEq(tok)
    IN k > 1 /\ k < Len(tok) /\ IsDigit(SubSeq(tok, 1, k - 1))

\* a text made of well-formed occurrences set apart by whitespace
WellFormed(text) ==
    LET toks == Tokens(text)
    IN toks # <<>> /\ \A k \in 1..Len(toks) : IsOccurrence(toks[k])

\* C12: on a text made of well-formed id=value occurrences both ID-value
\* parsers return one record per occurrence, in source order, duplicates
\* kept, the ID being the digit run and the Value the run after "=".
C12_OnePerOccurrence ==
    (call.fn \in IdParsers /\ WellFormed(call.arg)) =>
        LET toks == Tokens(call.arg)
        IN /\ Len(call.result) = Len(toks)
           /\ \A k \in 1..Len(toks) :
                 /\ call.result[k].ID = SubSeq(toks[k], 1, FirstEq(toks[k]) - 1)
                 /\ call.result[k].Value =
                        SubSeq(toks[k], FirstEq(toks[k]) + 1, Len(toks[k]))
                 /\ call.result[k].Value # <<>>

C12_Witness ==
    /\ call.fn = "IDValueProcessor.process"
    /\ WellFormed(call.arg)
    /\ Len(call.result) = 2
    /\ call.result[1].ID = call.result[2].ID
    /\ call.result[1].Value = <<"a", "=", "1">>

\* the ID-value parser function named fn, applied to text
IdParse(fn, text) ==
    IF fn = "convert_id_values" THEN convert_id_values(text)
    ELSE IDValueProcess(text)

\* the lines of a text that hold an id=value match
MatchingLines(text) ==
    SelectSeq(Split(text, NL), LAMBDA line : IdValueSearch(line))

\* the text without its lines that hold no match
WithoutNonMatching(text) == Join(MatchingLines(text), NL)

\* C13: the ID-value parsers skip lines without a match: the result is the
\* result for the text with those lines removed, and a text without any
\* match, the empty text included, gives the empty list.
C13_NonMatchingSkipped ==
    call.fn \in IdParsers =>
        /\ call.result = IdParse(call.fn, WithoutNonMatching(call.arg))
        /\ ~IdValueSearch(call.arg) => call.result = <<>>

C13_Witness ==
    /\ call.fn = "convert_id_values"
    /\ Len(Split(call.arg, NL)) = 2
    /\ Len(MatchingLines(call.arg)) = 1
    /\ Len(call.result) = 1
    /\ call.result[1].Value = <<"a">>

\* the parser functions that return records, and the one named fn applied
\* to a text
TripleParsers ==
    {"ExcelTranslationProcessor.process", "convert_excel_data", "convert_batch"}

Parse(fn, text) ==
    CASE fn = "convert_id_values" -> convert_id_values(text)
      [] fn = "IDValueProcessor.process" -> IDValueProcess(text)
      [] fn = "ExcelTranslationProcessor.process" -> ExcelProcess(text)
      [] fn = "convert_excel_data" -> convert_excel_data(text)
      [] fn = "convert_batch" -> convert_batch(FilterLines(text))

\* the text without its lines that begin with the example marker, a line
\* being taken as it stands in the text (what the parsers themselves filter
\* is SelectLines and ConvertExcelLines)
WithoutMarkerLines(text) ==
    Join(SelectSeq(Split(text, NL), LAMBDA line : ~StartsWith(line, Sentinel)), NL)

HasMarkerLine(text) ==
    \E k \in 1..Len(Split(text, NL)) : StartsWith(Split(text, NL)[k], Sentinel)

\* C14: for both parser variants a line that begins with the example marker
\* gives no record: the result is the result for the text without its
\* marker lines.
C14_MarkerLinesExcluded ==
    call.fn \in IdParsers \cup TripleParsers =>
        call.result = Parse(call.fn, WithoutMarkerLines(call.arg))

\* C14: an ID-value parser has returned a record taken from a marker line
C14_RecordFromMarkerLine ==
    /\ call.fn \in IdParsers
    /\ StartsWith(call.arg, Sentinel)
    /\ Len(Split(call.arg, NL)) = 1
    /\ Len(call.result) = 1

\* the tab-delimited fields of a line
Fields(line) == Split(line, TAB)

OneLine(text) == ~Contains(text, NL)

\* C15: the triple parsers give no record for a line of exactly two
\* tab-delimited fields, none for a line whose first field is not all digits
\* after trimming, and for a line of four or more fields one record built
\* from its first three fields.
C15_FieldCount ==
    (call.fn \in TripleParsers /\ OneLine(call.arg)) =>
        LET f == Fields(call.arg)
        IN /\ Len(f) = 2 => call.result = <<>>
           /\ ~IsDigit(Strip(f[1])) => call.result = <<>>
           /\ (Len(f) >= 4 /\ IsDigit(Strip(f[1]))) =>
                 /\ Len(call.result) = 1
                 /\ call.result[1].ID = Strip(f[1])
                 /\ call.result[1].Chinese = Strip(f[2])
                 /\ call.result[1].Korean = Strip(f[3])

\* C15: a line of four fields, digit id, has given no record
C15_FourFieldsNoRecord ==
    /\ call.fn = "ExcelTranslationProcessor.process"
    /\ OneLine(call.arg)
    /\ Len(Fields(call.arg)) = 4
    /\ IsDigit(Strip(Fields(call.arg)[1]))
    /\ call.result = <<>>

\* C16: for a line of three fields with a digit id and a blank second or
\* third field the triple parsers give one record, the blank field empty
\* and the output id, "=", third field.
C16_BlankField ==
    (/\ call.fn \in TripleParsers
     /\ OneLine(call.arg)
     /\ Len(Fields(call.arg)) = 3
     /\ IsDigit(Strip(Fields(call.arg)[1]))
     /\ \/ Strip(Fields(call.arg)[2]) = <<>>
        \/ Strip(Fields(call.arg)[3]) = <<>>)
        => LET f == Fields(call.arg)
           IN /\ Len(call.result) = 1
              /\ call.result[1].ID = Strip(f[1])
              /\ call.result[1].Chinese = Strip(f[2])
              /\ call.result[1].Korean = Strip(f[3])
              /\ call.result[1].Output = Strip(f[1]) \o <<"=">> \o Strip(f[3])

\* C16: the line id, tab, source, tab has given no record
C16_BlankThirdNoRecord ==
    /\ call.fn = "convert_excel_data"
    /\ call.arg = <<"1", TAB, "a", TAB>>
    /\ call.result = <<>>

\* a non-marker line with a tab, three or more fields and an all-digit id
HasTripleLine(text) ==
    \E k \in 1..Len(Split(text, NL)) :
        LET line == Split(text, NL)[k]
        IN /\ ~StartsWith(line, Sentinel)
           /\ Contains(line, TAB)
           /\ Len(Fields(line)) >= 3
           /\ IsDigit(Strip(Fields(line)[1]))

\* C17: ExcelTranslationProcessor.validate is true exactly when some
\* non-marker line has a tab, three or more fields and a digit id, that is
\* exactly when process gives a record; blank text is invalid.
C17_ValidateIffRecord ==
    call.fn = "ExcelTranslationProcessor.validate" =>
        /\ call.result = HasTripleLine(call.arg)
        /\ call.result = (ExcelProcess(call.arg) # <<>>)
        /\ Strip(call.arg) = <<>> => call.result = FALSE

\* C17: validate has accepted a text for which process gives no record
C17_ValidWithoutRecord ==
    /\ call.fn = "ExcelTranslationProcessor.validate"
    /\ call.result = TRUE
    /\ ExcelProcess(call.arg) = <<>>
    /\ ~HasTripleLine(call.arg)

Loaders == {"load_small_excel_file", "load_large_excel_file"}

\* the lines of the text in the input widget, none when it is empty
InputLines(text) == IF text = <<>> THEN <<>> ELSE Split(text, NL)

\* C18: the large-file reader keeps exactly the last RowCap rows of a table
\* with more rows, in their order, and warns (the warning dialog is up
\* before the rows are written, and the call is recorded as truncated); a
\* table of at most RowCap rows is kept whole without the warning.
C18_LastRowsKept ==
    /\ last_op = "load_large_excel_file_warning" =>
          /\ messagebox = "truncated"
          /\ Len(excel_file.rows) > RowCap
    /\ (last_op = "load_large_excel_file" /\ excel_file.ncols >= 3) =>
        LET rows == excel_file.rows
            over == Len(rows) > RowCap
            kept == IF over
                    THEN SubSeq(rows, Len(rows) - RowCap + 1, Len(rows))
                    ELSE rows
            lines == InputLines(input_text)
        IN /\ Len(lines) = Len(kept)
           /\ \A k \in 1..Len(kept) :
                 /\ Fields(lines[k])[1] = str(kept[k][1])
                 /\ Len(Fields(lines[k])) >= 2 =>
                       Fields(lines[k])[2] =
                           (IF notna(kept[k][2]) THEN kept[k][2] ELSE <<>>)
           /\ call.result = IF over THEN <<"truncated">> ELSE <<>>

C18_Witness ==
    /\ last_op = "load_large_excel_file"
    /\ excel_file.ncols >= 3
    /\ Len(excel_file.rows) = RowCap + 1
    /\ excel_file.rows[1][1] = <<"1">>
    /\ excel_file.rows[2][1] = <<"2">>
    /\ call.result = <<"truncated">>
    /\ Fields(InputLines(input_text)[1])[1] = <<"2">>

\* C19: with fewer than three columns both readers warn and return with the
\* input text as it was and nothing loaded; with three or more columns no
\* such warning is shown and only the first three columns reach the text.
C19_ColumnContract ==
    [][ last_op' \in Loaders =>
          IF excel_file.ncols < 3
          THEN /\ call'.result = <<"need_columns">>
               /\ messagebox' = "need_columns"
               /\ input_text' = input_text
               /\ ui'.status_label # <<"loaded">>
          ELSE /\ \A k \in 1..Len(call'.result) : call'.result[k] # "need_columns"
               /\ ui'.status_label = <<"loaded">>
               /\ ~Contains(input_text', ExtraCell[1])
               /\ \A k \in 1..Len(InputLines(input_text')) :
                     Len(Fields(InputLines(input_text')[k])) <= 3 ]_vars

C19_Witness ==
    /\ last_op = "load_small_excel_file"
    /\ excel_file.ncols = 2
    /\ Len(excel_file.rows) = 2
    /\ messagebox = "need_columns"
    /\ input_text = ExampleText
    /\ ui.status_label = <<"reading">>

\* C20: every row the reader keeps becomes one line of exactly three
\* tab-delimited fields, a missing cell an empty field.
C20_ThreeFieldsPerRow ==
    (last_op = "load_small_excel_file" /\ excel_file.ncols >= 3) =>
        LET rows == excel_file.rows
            lines == InputLines(input_text)
        IN /\ Len(lines) = Len(rows)
           /\ \A k \in 1..Len(rows) :
                 /\ Len(Fields(lines[k])) = 3
                 /\ \A j \in 1..3 :
                       Fields(lines[k])[j] =
                           (IF notna(rows[k][j]) THEN rows[k][j] ELSE <<>>)

\* C20: the last row, its third cell missing, has become a line of two fields
C20_LastRowShort ==
    /\ last_op = "load_small_excel_file"
    /\ excel_file.ncols = 3
    /\ excel_file.rows = << <<<<"1">>, <<"a">>, <<"b">>>>, <<<<"2">>, <<"a">>, NaN>> >>
    /\ Len(Fields(InputLines(input_text)[2])) = 2

\* the number of occurrences of character c in text s
RECURSIVE Count(_, _)
Count(s, c) ==
    IF s = <<>> THEN 0
    ELSE (IF Head(s) = c THEN 1 ELSE 0) + Count(Tail(s), c)

\* C21: export_text with no converted data writes no file; with more than
\* ExportThreshold records it writes in batches and reports progress, and
\* with at most ExportThreshold records it writes in one pass.
C21_ExportPath ==
    call.fn = "export_text" =>
        /\ call.arg = <<>> => call.result.path = "none"
        /\ call.result.path # "none" =>
               call.result.path =
                   (IF Len(call.arg) > ExportThreshold
                    THEN "batched" ELSE "single")

\* a file was written by export_text for more records than ExportThreshold
C21_LargeExport ==
    /\ call.fn = "export_text"
    /\ Len(call.arg) > ExportThreshold
    /\ call.result.path # "none"

\* C22: a file written for N records holds exactly N line feeds and no
\* carriage return, whatever the platform's line separator.
C22_LineEndings ==
    (call.fn \in {"export_text", "export_small_file", "export_large_file"}
        /\ call.result.path # "none") =>
        /\ Count(call.result.content, NL) = Len(call.arg)
        /\ Count(call.result.content, CR) = 0

\* a file was written for records without a carriage return
C22_Written ==
    /\ call.fn \in {"export_small_file", "export_large_file"}
    /\ Len(call.arg) > 1
    /\ \A i \in 1..Len(call.arg) : Count(call.arg[i].Output, CR) = 0

\* every record's Output once, in list order, each followed by one LF
RECURSIVE OutputLines(_)
OutputLines(rows) ==
    IF rows = <<>> THEN <<>>
    ELSE Head(rows).Output \o <<NL>> \o OutputLines(Tail(rows))

\* C30: for every record list export_large_file writes to its file what
\* export_small_file writes for it on every platform: every record's Output
\* once, in list order, each followed by one LF.
C30_SameContent ==
    /\ (call.fn = "export_large_file" /\ call.result.path # "none") =>
           /\ call.result.content = OutputLines(call.arg)
           /\ \A linesep \in Platforms :
                  call.result.content = WriteRows(call.arg, linesep)
    /\ (call.fn = "export_small_file" /\ call.result.path # "none") =>
           call.result.content = OutputLines(call.arg)

\* export_large_file was called with records in self.converted_data, has
\* written an empty file and reports the number of records as exported
C30_EmptyFile ==
    /\ call.fn = "export_large_file"
    /\ call.result.path = "batched"
    /\ call.arg # <<>>
    /\ call.result.content = <<>>
    /\ ui.status_bar = <<"exported", Len(call.arg)>>

\* C24: when the completion callback of a run has run, converted_data holds
\* the records of the run's whole input, in order: nothing but the run's
\* worker changed it while the run was active.
C24_OwnedAccumulator ==
    (last_op = "conversion_completed" /\ runs[1].outcome = "completed") =>
        converted_data = convert_batch(FilterLines(threads[1].input_data))

\* the terminal outcomes run r has been given
Outcomes(r) ==
    (IF runs[r].cancelled THEN {"cancelled"} ELSE {})
        \cup (IF runs[r].outcome # "none" THEN {runs[r].outcome} ELSE {})

\* the thread of run r has returned and none of its callbacks is queued
RunOver(r) ==
    /\ threads[r].pc = "done"
    /\ \A k \in 1..Len(after_queue) : after_queue[k].run # r

\* C25: a started run whose thread has returned and whose callbacks have
\* all run has exactly one terminal outcome (completed, failed or
\* cancelled), and the module is idle again.
C25_OneOutcome ==
    /\ \A r \in RunIds : RunOver(r) => Cardinality(Outcomes(r)) = 1
    /\ (\A r \in RunIds : Started(r) => RunOver(r)) => ~processing

\* C26: an asynchronous run that is not cancelled and not interleaved with
\* other operations ends with converted_data equal to the synchronous
\* conversion of the same text: same records, same order.
C26_AsyncEqualsSync ==
    (last_op = "conversion_completed" /\ runs[1].outcome = "completed") =>
        converted_data = convert_excel_data(threads[1].input_data)

\* a completed run of several chunks, the last one short, in which some
\* lines gave a record and some did not
C26_Witness ==
    /\ last_op = "conversion_completed"
    /\ runs[1].outcome = "completed"
    /\ Len(threads[1].lines) > AsyncBatchSize
    /\ Len(threads[1].lines) % AsyncBatchSize # 0
    /\ Len(converted_data) >= 2
    /\ Len(converted_data) < Len(threads[1].lines)

\* percent p is processed / total * 100
IsPercentOf(p, processed, total) == p.num * total = processed * 100 * p.den

\* C27: the percent of every progress event of the worker is
\* min(100, processed_lines / total_lines * 100), processed_lines being the
\* number of lines handled when the chunk ends, a short last chunk included.
C27_ProgressValue ==
    \A r \in RunIds :
        LET q == QueuedProgress(r)
            total == Len(threads[r].lines)
        IN /\ \A k \in 1..Len(q) :
                  /\ q[k].to = Min(q[k].from - 1 + AsyncBatchSize, total)
                  /\ IsPercentOf(q[k].progress, q[k].to, total)
                  /\ PctLeq(q[k].progress, Pct(100))
           /\ runs[r].delivered > 0 =>
                  IsPercentOf(runs[r].last_pct,
                              Min(runs[r].last_i + AsyncBatchSize, total), total)

\* the progress of a short last chunk has been delivered
C27_Witness ==
    /\ last_op = "update_progress"
    /\ runs[1].delivered >= 2
    /\ runs[1].last_i + AsyncBatchSize > Len(threads[1].lines)
    /\ runs[1].last_pct = Pct(100)

\* C28: every record held in converted_data has an ID that is a non-empty
\* string of digits and an Output equal to ID, '=' and Korean.
C28_RecordShape ==
    \A k \in 1..Len(converted_data) :
        LET rec == converted_data[k] IN
        /\ rec.ID # <<>>
        /\ \A j \in 1..Len(rec.ID) : rec.ID[j] \in Digits
        /\ rec.Output = rec.ID \o <<"=">> \o rec.Korean

\* records with different IDs from a text that also held lines without a
\* digit ID, converted by the worker
C28_Witness ==
    /\ last_op = "conversion_completed"
    /\ Len(converted_data) >= 2
    /\ converted_data[1].ID # converted_data[2].ID
    /\ Len(converted_data) < Len(threads[1].lines)

\* the number of lines of the text that are not blank and do not begin with
\* the example marker
DataLineCount(text) ==
    LET raw == Split(Strip(text), NL)
    IN Cardinality({ k \in 1..Len(raw) :
                       Strip(raw[k]) # <<>> /\ ~StartsWith(raw[k], Sentinel) })

\* C29: convert_and_preview, called when no conversion is in progress,
\* starts a worker exactly if the text has more than AsyncThreshold such
\* lines; with fewer or as many it starts none, leaves processing false and
\* converts the text on the calling thread.
C29_PathChoice ==
    [][ (last_op' = "convert_and_preview" /\ ~processing) =>
            LET n == DataLineCount(input_text) IN
            /\ (threads' # threads) <=> (n > AsyncThreshold)
            /\ n > AsyncThreshold => processing'
            /\ n <= AsyncThreshold =>
                   /\ ~processing'
                   /\ Strip(input_text) # <<>> =>
                          converted_data' = convert_excel_data(input_text) ]_vars

\* a text of exactly AsyncThreshold data lines was converted on the calling
\* thread
C29_Witness ==
    /\ last_op = "convert_and_preview"
    /\ DataLineCount(input_text) = AsyncThreshold
    /\ Len(converted_data) = AsyncThreshold
    /\ ~processing
    /\ NumStarted = 0

====
